---- MODULE Spec2Model ----
(***************************************************************************)
(* Control-protocol engine of the SDK (src/src/query.rs), the session      *)
(* facade that writes through it (src/src/client.rs, src/src/lib.rs) and   *)
(* the transport it owns (src/src/transport).                              *)
(*                                                                         *)
(* Tasks: the read loop spawned by Query::start, caller tasks that issue   *)
(* send_control_request / interrupt / set_permission_mode /                *)
(* ClaudeSDKClient::query, the consumer of Query::receive_messages, and    *)
(* the subprocess (peer) at the other end of the pipe.                     *)
(***************************************************************************)
EXTENDS Integers, Sequences, FiniteSets, TLC

\* ------------------------------------------------------------------ bounds
MaxCallers == 2         \* caller tasks, each issuing one outbound operation
MaxControlFrames == 2   \* items the peer emits in a session with callers
MaxStreamFrames == 3    \* items the peer emits in a session with a consumer
MaxInFlight == 1        \* items emitted by the peer and not yet read
MaxFrames == 3          \* frames the subprocess prints on its standard output
MaxLines == 3           \* physical lines the subprocess prints
max_buffer_size == 11   \* SubprocessCLITransport.max_buffer_size, in bytes
MaxCalls == 3           \* calls the application makes on the transport itself

Callers == 1..MaxCallers
RequestIds == 1..MaxCallers

VARIABLES
    is_streaming,       \* Query.is_streaming
    can_use_tool,       \* Query.can_use_tool is Some(callback)
    request_counter,    \* Query.request_counter
    pending_responses,  \* Query.pending_responses: the registered request ids
    oneshot,            \* state of the oneshot channel created for each id
    lockOwner,          \* holder of the Mutex around the transport
    ready,              \* transport accepts writes
    written,            \* lines written to the transport, in order
    inbox,              \* items of the transport's read sequence not yet read
    peerClosed,         \* the read sequence ends after the items of inbox
    arrived,            \* every item the read sequence has carried (history)
    consumed,           \* every item the read loop has taken (history)
    rlPc,               \* position of the read-loop task
    cur,                \* control_request being dispatched by the read loop
    result,             \* PermissionResult the callback returned for cur
    channel,            \* every item sent on message_tx, in order
    rxState,            \* message_rx: "stored" in Query, "taken", "dropped"
    rxPos,              \* items of channel the consumer has received
    cPc,                \* result of the consumer's last poll of the stream
    pc,                 \* position of each caller task
    op,                 \* operation each caller task runs
    rid,                \* request id each caller generated (0: none)
    outcomes,           \* results returned to each caller, in order
    resolved,           \* value sent through the oneshot channel of each id
    returned,           \* value or error text each caller was resolved with
    view,               \* adaptor the consumer's stream was built with
    frames,             \* frame texts the subprocess has begun to print
    rest,               \* text of the current frame not yet printed
    nLines,             \* physical lines the subprocess has printed
    stdout,             \* physical lines printed and not yet read
    stdoutClosed,       \* the subprocess has closed its standard output
    json_buffer,        \* read_stdout: bytes accumulated since the last emit
    tx,                 \* read_stdout: items sent on tx, in order
    stdoutRx,           \* receiver of tx: "alive" or "dropped"
    fpc,                \* read_stdout: "reading", or how the loop ended
    stdin,              \* transport.stdin: "none", "open", or "broken"
                        \* (a handle whose reader, the subprocess, is gone)
    process,            \* transport.process: "none" or "running"
    calls,              \* calls made on the transport itself, with results
    message_rx,         \* transport.message_rx: "none", "stored" or "taken"
    msgStream,          \* the live stream a direct read_messages returned:
                        \* "none", "rx" (wraps the receiver) or "empty"
    yielded             \* items such streams have yielded, with their call

vars == <<is_streaming, can_use_tool, request_counter, pending_responses,
          oneshot, lockOwner, ready, written, inbox, peerClosed, arrived,
          consumed, rlPc, cur, result, channel, rxState, rxPos, cPc, pc, op,
          rid, outcomes, resolved, returned, view, frames, rest, nLines,
          stdout, stdoutClosed, json_buffer, tx, stdoutRx, fpc, stdin,
          process, calls, message_rx, msgStream, yielded>>

queryVars == <<is_streaming, can_use_tool>>
tableVars == <<request_counter, pending_responses, oneshot, resolved>>
peerVars == <<inbox, peerClosed, arrived>>
callerVars == <<pc, op, rid, outcomes, returned>>
consumerVars == <<rxState, rxPos, cPc, view>>
dispatchVars == <<cur, result>>
producerVars == <<frames, rest, nLines, stdoutClosed>>
framingVars == <<producerVars, stdout, json_buffer, tx, stdoutRx, fpc>>
handleVars == <<stdin, process, calls, message_rx, msgStream, yielded>>
engineVars == <<queryVars, tableVars, lockOwner, ready, written, peerVars,
                consumed, rlPc, dispatchVars, channel, consumerVars,
                callerVars, handleVars>>

\* ------------------------------------------------------------------ frames
NoFrame == [kind |-> "none", type |-> "", seq |-> 0, request_id |-> 0,
            subtype |-> "", hasBody |-> FALSE, tool_name |-> FALSE,
            payload |-> FALSE]

\* An ordinary frame; type "" stands for a value with no string `type`.
OrdinaryFrame(n, t) ==
    [kind |-> "ok", type |-> t, seq |-> n, request_id |-> 0,
     subtype |-> "", hasBody |-> TRUE, tool_name |-> FALSE,
     payload |-> FALSE]

\* {"type":"control_response","response":{"subtype":s,"request_id":id,
\*  "response":<payload n>}} or, for subtype error, "error":"<text n>".
InboundResponse(n, id, s) ==
    [kind |-> "ok", type |-> "control_response", seq |-> n,
     request_id |-> id, subtype |-> s, hasBody |-> TRUE, tool_name |-> FALSE,
     payload |-> TRUE]

\* {"type":"control_response","response":{"subtype":s,"request_id":id}}
InboundResponseBare(n, id, s) ==
    [kind |-> "ok", type |-> "control_response", seq |-> n,
     request_id |-> id, subtype |-> s, hasBody |-> TRUE, tool_name |-> FALSE,
     payload |-> FALSE]

\* {"type":"control_request","request_id":"r<n>","request":{"subtype":s,...}}
InboundRequest(n, s, body, tool) ==
    [kind |-> "ok", type |-> "control_request", seq |-> n, request_id |-> n,
     subtype |-> s, hasBody |-> body, tool_name |-> tool, payload |-> FALSE]

\* An Err item of the read sequence (decode failure).
ErrItem(n) ==
    [kind |-> "err", type |-> "", seq |-> n, request_id |-> 0,
     subtype |-> "", hasBody |-> FALSE, tool_name |-> FALSE,
     payload |-> FALSE]

\* Lines written to the transport.
OutboundRequest(id, subtype) ==
    [type |-> "control_request", subtype |-> subtype, request_id |-> id,
     payload |-> <<>>, error |-> ""]

UserMessage ==
    [type |-> "user", subtype |-> "", request_id |-> 0,
     payload |-> <<>>, error |-> ""]

SuccessReply(id, payload) ==
    [type |-> "control_response", subtype |-> "success", request_id |-> id,
     payload |-> payload, error |-> ""]

ErrorReply(id, msg) ==
    [type |-> "control_response", subtype |-> "error", request_id |-> id,
     payload |-> <<>>, error |-> msg]

\* Values carried by a oneshot channel: the payload (or error text) of the
\* control_response with sequence number n is n; Null stands for
\* Value::Null and for the text "Unknown error".
Null == 0

\* ------------------------------------------------------ permission results
Allow(input) ==
    [variant |-> "Allow", updated_input |-> input, message |-> "",
     interrupt |-> FALSE]

Deny(m, i) ==
    [variant |-> "Deny", updated_input |-> "", message |-> m,
     interrupt |-> i]

PermissionResult ==
    {Allow(""), Allow("x")} \cup {Deny("no", i) : i \in BOOLEAN}

NoResult ==
    [variant |-> "none", updated_input |-> "", message |-> "",
     interrupt |-> FALSE]

\* ------------------------------------------------------------------- Init
QueryInit ==
    /\ is_streaming \in BOOLEAN
    /\ can_use_tool \in BOOLEAN
    /\ request_counter = 0
    /\ pending_responses = {}
    /\ oneshot = [i \in RequestIds |-> "none"]
    /\ lockOwner = "free"
    /\ written = <<>>
    /\ inbox = <<>>
    /\ peerClosed = FALSE
    /\ arrived = <<>>
    /\ consumed = <<>>
    /\ rlPc = "unstarted"
    /\ cur = NoFrame
    /\ result = NoResult
    /\ channel = <<>>
    /\ rxState = "stored"
    /\ rxPos = 0
    /\ cPc = "idle"
    /\ pc = [c \in Callers |-> "idle"]
    /\ op = [c \in Callers |-> ""]
    /\ rid = [c \in Callers |-> 0]
    /\ outcomes = [c \in Callers |-> <<>>]
    /\ resolved = [i \in RequestIds |-> Null]
    /\ returned = [c \in Callers |-> Null]
    /\ view = "none"
    /\ frames = <<>>
    /\ rest = <<>>
    /\ nLines = 0
    /\ stdout = <<>>
    /\ stdoutClosed = FALSE
    /\ json_buffer = <<>>
    /\ tx = <<>>
    /\ stdoutRx = "alive"
    /\ fpc = "unstarted"
    /\ calls = <<>>
    /\ msgStream = "none"
    /\ yielded = <<>>

\* Query::new is given a transport that has been connected.
Init ==
    /\ QueryInit
    /\ ready = TRUE
    /\ stdin = "open"
    /\ process = "running"
    /\ message_rx = "stored"

\* ------------------------------------------------------------------- peer
\* Request ids the subprocess has read from control_request lines.
AnswerableIds ==
    {written[i].request_id :
        i \in {j \in 1..Len(written) : written[j].type = "control_request"}}

PeerItems(n) ==
    {OrdinaryFrame(n, "assistant"), OrdinaryFrame(n, "result"),
     OrdinaryFrame(n, ""), ErrItem(n)}
    \cup {InboundResponse(n, id, s) :
            id \in AnswerableIds \cup {0}, s \in {"success", "error"}}
    \cup {InboundResponseBare(n, id, s) :
            id \in AnswerableIds, s \in {"success", "error"}}
    \cup {InboundRequest(n, "can_use_tool", TRUE, TRUE),
          InboundRequest(n, "can_use_tool", TRUE, FALSE),
          InboundRequest(n, "interrupt", TRUE, FALSE),
          InboundRequest(n, "bogus", TRUE, FALSE),
          InboundRequest(n, "can_use_tool", FALSE, FALSE)}

\* The subprocess puts one more item on its output.
PeerEmit(limit) ==
    /\ ~peerClosed
    /\ Len(arrived) < limit
    /\ Len(inbox) < MaxInFlight
    /\ \E f \in PeerItems(Len(arrived) + 1) :
        /\ inbox' = Append(inbox, f)
        /\ arrived' = Append(arrived, f)
    /\ UNCHANGED <<framingVars, handleVars, queryVars, tableVars, lockOwner, ready, written,
                   peerClosed, consumed, rlPc, dispatchVars, channel,
                   consumerVars, callerVars>>

\* The subprocess closes its output.
PeerClose ==
    /\ ~peerClosed
    /\ peerClosed' = TRUE
    /\ UNCHANGED <<framingVars, handleVars, queryVars, tableVars, lockOwner, ready, written, inbox,
                   arrived, consumed, rlPc, dispatchVars, channel,
                   consumerVars, callerVars>>

\* -------------------------------------------------------------- transport
\* SubprocessCLITransport::write: the line reaches the pipe when the
\* transport is ready, and the call fails otherwise.
\* read_messages that hands out the receiver without taking it.
ReadMessagesEffect_Clones(rx) ==
    IF rx = "none" THEN [stream |-> "empty", message_rx |-> rx]
    ELSE [stream |-> "rx", message_rx |-> "stored"]

\* SubprocessCLITransport::read_messages: message_rx.take() wrapped in a
\* stream, or an empty stream when there is no receiver.
ReadMessagesEffect(rx) ==
    IF rx = "stored" THEN [stream |-> "rx", message_rx |-> "taken"]
    ELSE [stream |-> "empty", message_rx |-> rx]

WriteOk_ReadyOnly == ready

WriteOk == ready /\ stdin = "open"

WriteResult(line) == IF WriteOk THEN Append(written, line) ELSE written

\* ---------------------------------------------------------------- framing
\* Texts are sequences of one-byte strings.  The subprocess prints JSON
\* objects with one string member.
Text_a_b == <<"{", "\"", "k", "\"", ":", "\"", "a", " ", "b", "\"", "}">>
Text_ab == <<"{", "\"", "k", "\"", ":", "\"", "a", "b", "\"", "}">>
Text_empty == <<"{", "\"", "k", "\"", ":", " ", "\"", "\"", "}">>
Text_padded ==
    <<"{", " ", "\"", "k", "\"", ":", "\"", "a", "b", "\"", " ", "}">>

\* A line that is not JSON and is not the beginning of any JSON value.
Text_malformed == <<"{", "\"", "k", "\"", ":", "}">>

\* A short line that is not JSON either.
Text_stray == <<"}">>

FrameTexts ==
    {Text_a_b, Text_ab, Text_empty, Text_padded, Text_malformed, Text_stray}

\* str::trim
RECURSIVE TrimStart(_)
TrimStart(s) ==
    IF s # <<>> /\ Head(s) = " " THEN TrimStart(Tail(s)) ELSE s

RECURSIVE TrimEnd(_)
TrimEnd(s) ==
    IF s # <<>> /\ s[Len(s)] = " "
    THEN TrimEnd(SubSeq(s, 1, Len(s) - 1)) ELSE s

Trim(s) == TrimEnd(TrimStart(s))

\* serde_json::from_slice::<Value> on texts over the bytes above: optional
\* white space, '{', a string, ':', a string, '}', optional white space and
\* nothing else.  A string runs from a quote to the next quote.
RECURSIVE SkipWs(_, _)
SkipWs(s, i) ==
    IF i <= Len(s) /\ s[i] = " " THEN SkipWs(s, i + 1) ELSE i

RECURSIVE ClosingQuote(_, _)
ClosingQuote(s, i) ==
    IF i > Len(s) THEN 0
    ELSE IF s[i] = "\"" THEN i
    ELSE ClosingQuote(s, i + 1)

ByteAt(s, i) == IF i >= 1 /\ i <= Len(s) THEN s[i] ELSE ""

DecodeError == [kind |-> "decode_error", key |-> <<>>, value |-> <<>>]

Decode(s) ==
    LET lb == SkipWs(s, 1)
        kq == SkipWs(s, lb + 1)
        ke == ClosingQuote(s, kq + 1)
        co == SkipWs(s, ke + 1)
        vq == SkipWs(s, co + 1)
        ve == ClosingQuote(s, vq + 1)
        rb == SkipWs(s, ve + 1)
        end == SkipWs(s, rb + 1)
    IN IF /\ ByteAt(s, lb) = "{"
          /\ ByteAt(s, kq) = "\""
          /\ ke # 0
          /\ ByteAt(s, co) = ":"
          /\ ByteAt(s, vq) = "\""
          /\ ve # 0
          /\ ByteAt(s, rb) = "}"
          /\ end = Len(s) + 1
       THEN [kind |-> "value", key |-> SubSeq(s, kq + 1, ke - 1),
             value |-> SubSeq(s, vq + 1, ve - 1)]
       ELSE DecodeError

\* The subprocess begins to print a frame.
PeerBeginFrame(t) ==
    /\ process = "running"
    /\ ~stdoutClosed
    /\ rest = <<>>
    /\ Len(frames) < MaxFrames
    /\ nLines < MaxLines
    /\ frames' = Append(frames, t)
    /\ rest' = t
    /\ UNCHANGED <<engineVars, nLines, stdoutClosed, stdout, json_buffer, tx,
                   stdoutRx, fpc>>

\* The subprocess prints the next k bytes of the frame and a line break.
PeerWriteLine(k) ==
    /\ rest # <<>>
    /\ k \in 1..Len(rest)
    /\ nLines + (IF k < Len(rest) THEN 1 ELSE 0) < MaxLines
    /\ stdout' = Append(stdout, SubSeq(rest, 1, k))
    /\ rest' = SubSeq(rest, k + 1, Len(rest))
    /\ nLines' = nLines + 1
    /\ UNCHANGED <<engineVars, frames, stdoutClosed, json_buffer, tx,
                   stdoutRx, fpc>>

\* The subprocess closes its standard output after a complete frame.
PeerCloseStdout ==
    /\ process = "running"
    /\ ~stdoutClosed
    /\ rest = <<>>
    /\ stdoutClosed' = TRUE
    /\ UNCHANGED <<engineVars, frames, rest, nLines, stdout, json_buffer, tx,
                   stdoutRx, fpc>>

\* SubprocessCLITransport::connect spawns the task that runs read_stdout.
SpawnReadStdout ==
    /\ fpc = "unstarted"
    /\ fpc' = "reading"
    /\ UNCHANGED <<engineVars, producerVars, stdout, json_buffer, tx,
                   stdoutRx>>

\* Body of the loop of read_stdout for one line: the buffer it leaves and
\* the item it sends on tx.
NoItem == [kind |-> "none", key |-> <<>>, value |-> <<>>]

\* The loop body without json_buffer.clear() in the overflow branch.
LineStep_KeepsBuffer(buf, line) ==
    LET line_trimmed == Trim(line)
        buffer == buf \o line_trimmed
    IN IF line_trimmed = <<>>
       THEN [json_buffer |-> buf, item |-> NoItem]
       ELSE IF Len(buffer) > max_buffer_size
       THEN [json_buffer |-> buffer, item |-> DecodeError]
       ELSE IF Decode(buffer).kind = "value"
       THEN [json_buffer |-> <<>>, item |-> Decode(buffer)]
       ELSE [json_buffer |-> buffer, item |-> NoItem]

\* The loop body that starts over after a line that fails to decode.
LineStep_RestartsOnFailure(buf, line) ==
    LET line_trimmed == Trim(line)
        buffer == buf \o line_trimmed
    IN IF line_trimmed = <<>>
       THEN [json_buffer |-> buf, item |-> NoItem]
       ELSE IF Len(buffer) > max_buffer_size
       THEN [json_buffer |-> <<>>, item |-> DecodeError]
       ELSE IF Decode(buffer).kind = "value"
       THEN [json_buffer |-> <<>>, item |-> Decode(buffer)]
       ELSE [json_buffer |-> <<>>, item |-> NoItem]

\* The loop body that tries to decode before it checks the size.
LineStep_DecodesFirst(buf, line) ==
    LET line_trimmed == Trim(line)
        buffer == buf \o line_trimmed
    IN IF line_trimmed = <<>>
       THEN [json_buffer |-> buf, item |-> NoItem]
       ELSE IF Decode(buffer).kind = "value"
       THEN [json_buffer |-> <<>>, item |-> Decode(buffer)]
       ELSE IF Len(buffer) > max_buffer_size
       THEN [json_buffer |-> <<>>, item |-> DecodeError]
       ELSE [json_buffer |-> buffer, item |-> NoItem]

LineStep(buf, line) ==
    LET line_trimmed == Trim(line)
        buffer == buf \o line_trimmed
    IN IF line_trimmed = <<>>
       THEN [json_buffer |-> buf, item |-> NoItem]
       ELSE IF Len(buffer) > max_buffer_size
       THEN [json_buffer |-> <<>>, item |-> DecodeError]
       ELSE IF Decode(buffer).kind = "value"
       THEN [json_buffer |-> <<>>, item |-> Decode(buffer)]
       ELSE [json_buffer |-> buffer, item |-> NoItem]

\* One iteration of the loop on a line that next_line() returned.  A failed
\* send of a decoded value ends the loop; a failed send of the decode error
\* is ignored.
ReadLine ==
    /\ fpc = "reading"
    /\ stdout # <<>>
    /\ LET step == LineStep(json_buffer, Head(stdout)) IN
        /\ json_buffer' = step.json_buffer
        /\ IF step.item.kind = "none"
           THEN UNCHANGED <<tx, fpc>>
           ELSE IF stdoutRx = "alive"
           THEN tx' = Append(tx, step.item) /\ UNCHANGED fpc
           ELSE /\ fpc' = IF step.item.kind = "value"
                          THEN "rx_gone" ELSE fpc
                /\ UNCHANGED tx
    /\ stdout' = Tail(stdout)
    /\ UNCHANGED <<engineVars, producerVars, stdoutRx>>

ReadEof_AppendsError ==
    /\ fpc = "reading"
    /\ stdout = <<>>
    /\ stdoutClosed
    /\ fpc' = "eof"
    /\ tx' = IF stdoutRx = "alive" THEN Append(tx, DecodeError) ELSE tx
    /\ UNCHANGED <<engineVars, producerVars, stdout, json_buffer, stdoutRx>>

\* next_line() returns Ok(None): the loop ends and read_stdout returns Ok.
ReadEof ==
    /\ fpc = "reading"
    /\ stdout = <<>>
    /\ stdoutClosed
    /\ fpc' = "eof"
    /\ UNCHANGED <<engineVars, producerVars, stdout, json_buffer, tx,
                   stdoutRx>>

\* next_line() returns Err(e): `while let Ok(Some(line))` does not match, the
\* loop ends and read_stdout returns Ok.
ReadIoError ==
    /\ fpc = "reading"
    /\ fpc' = "io_error"
    /\ UNCHANGED <<engineVars, producerVars, stdout, json_buffer, tx,
                   stdoutRx>>

\* The stream returned by read_messages is dropped.
DropStdoutRx ==
    /\ stdoutRx = "alive"
    /\ fpc # "unstarted"
    /\ stdoutRx' = "dropped"
    /\ UNCHANGED <<engineVars, producerVars, stdout, json_buffer, tx, fpc>>

\* -------------------------------------------------------------- read loop
\* Query::start: clones the handles and spawns the read-loop task.
Start ==
    /\ rlPc = "unstarted"
    /\ rlPc' = "spawned"
    /\ UNCHANGED <<framingVars, handleVars, queryVars, tableVars, lockOwner, ready, written, peerVars,
                   consumed, dispatchVars, channel, consumerVars, callerVars>>

\* First statement of the task: transport.lock().await, then read_messages().
\* The guard lives until the task ends.
ReadLoopLock ==
    /\ rlPc = "spawned"
    /\ lockOwner = "free"
    /\ lockOwner' = "read_loop"
    /\ rlPc' = "reading"
    /\ message_rx' = ReadMessagesEffect(message_rx).message_rx
    /\ UNCHANGED <<framingVars, stdin, process, calls, msgStream, yielded, queryVars, tableVars, ready, written, peerVars, consumed,
                   dispatchVars, channel, consumerVars, callerVars>>

\* message_tx.send fails exactly when the receiver has been dropped.
SendFails == rxState = "dropped"

\* Route with the "control_request" arm missing: such frames fall through to
\* the regular messages.
Route_NoRequestArm(f) ==
    IF f.kind = "err" THEN "err"
    ELSE IF f.type = "control_response" THEN "control_response"
    ELSE "regular"

\* Query::start, the match on the item and on its `type` string.
Route(f) ==
    IF f.kind = "err" THEN "err"
    ELSE IF f.type = "control_response" THEN "control_response"
    ELSE IF f.type = "control_request" THEN "control_request"
    ELSE "regular"

\* handle_control_response looking the sender up with get() instead of
\* remove(): the entry stays registered.
HandleControlResponseTable_Get(f) == pending_responses

\* handle_control_response falling back to the oldest registered request
\* when the id of the response is not registered.
HandleControlResponseTable_Oldest(f) ==
    IF f.hasBody /\ f.request_id \in pending_responses
    THEN pending_responses \ {f.request_id}
    ELSE {id \in pending_responses : \E o \in pending_responses : o < id}

\* Query::handle_control_response
HandleControlResponseTable(f) ==
    IF f.hasBody /\ f.request_id \in pending_responses
    THEN pending_responses \ {f.request_id}
    ELSE pending_responses

\* handle_control_response without the test of the subtype: every matched
\* response resolves its caller with Ok.
HandleControlResponseSlot_AlwaysOk(f) ==
    IF f.hasBody /\ f.request_id \in pending_responses
          /\ oneshot[f.request_id] = "waiting"
    THEN [oneshot EXCEPT ![f.request_id] = "Ok"]
    ELSE oneshot

\* handle_control_response resolving the oldest waiting request instead of
\* the one whose id the response carries.
HandleControlResponseSlot_Fifo(f) ==
    LET waiting == {id \in pending_responses : oneshot[id] = "waiting"} IN
    IF f.hasBody /\ f.request_id \in pending_responses /\ waiting # {}
    THEN [oneshot EXCEPT
            ![CHOOSE id \in waiting : \A o \in waiting : id <= o] =
                IF f.subtype = "error" THEN "Err" ELSE "Ok"]
    ELSE oneshot

HandleControlResponseSlot(f) ==
    IF f.hasBody /\ f.request_id \in pending_responses
          /\ oneshot[f.request_id] = "waiting"
    THEN [oneshot EXCEPT ![f.request_id] =
            IF f.subtype = "error" THEN "Err" ELSE "Ok"]
    ELSE oneshot

HandleControlResponseValue(f) ==
    IF f.hasBody /\ f.request_id \in pending_responses
          /\ oneshot[f.request_id] = "waiting"
    THEN [resolved EXCEPT ![f.request_id] =
            IF f.payload THEN f.seq ELSE Null]
    ELSE resolved

\* stream.next() yields a control_response frame.
RouteControlResponse ==
    /\ rlPc = "reading"
    /\ inbox # <<>>
    /\ LET f == Head(inbox) IN
        /\ Route(f) = "control_response"
        /\ pending_responses' = HandleControlResponseTable(f)
        /\ oneshot' = HandleControlResponseSlot(f)
        /\ resolved' = HandleControlResponseValue(f)
        /\ consumed' = Append(consumed, f)
    /\ inbox' = Tail(inbox)
    /\ UNCHANGED <<framingVars, handleVars, queryVars, request_counter, lockOwner, ready, written,
                   peerClosed, arrived, rlPc, dispatchVars, channel,
                   consumerVars, callerVars>>

\* Query::process_control_request, the part that needs no callback result.
NeedsCallback(f) ==
    f.subtype = "can_use_tool" /\ can_use_tool /\ f.tool_name

ProcessControlRequest(f) ==
    IF f.subtype = "can_use_tool"
    THEN IF can_use_tool
         THEN ErrorReply(f.request_id, "Control protocol error: Missing tool_name")
         ELSE ErrorReply(f.request_id,
                "Control protocol error: can_use_tool callback not provided")
    ELSE IF f.subtype \in {"initialize", "interrupt", "set_permission_mode",
                           "hook_callback", "mcp_message"}
         THEN SuccessReply(f.request_id, <<"null">>)
         ELSE ErrorReply(f.request_id,
                "Control protocol error: Unknown request subtype: "
                    \o f.subtype)

\* Query::process_control_request, mapping of the callback's result.
\* The Allow payload with the `input` key always present.
PermissionReply_AlwaysInput(f, r) ==
    IF r.variant = "Allow"
    THEN SuccessReply(f.request_id,
           <<"allow", "true", "input", r.updated_input>>)
    ELSE SuccessReply(f.request_id, <<"allow", "false", "reason", r.message>>)

PermissionReply(f, r) ==
    IF r.variant = "Allow"
    THEN IF r.updated_input # ""
         THEN SuccessReply(f.request_id,
                <<"allow", "true", "input", r.updated_input>>)
         ELSE SuccessReply(f.request_id, <<"allow", "true">>)
    ELSE SuccessReply(f.request_id, <<"allow", "false", "reason", r.message>>)

\* Query::handle_control_request, the frame built from the Result of
\* process_control_request.
ResponseData(f, r) ==
    IF NeedsCallback(f) THEN PermissionReply(f, r)
    ELSE ProcessControlRequest(f)

\* stream.next() yields a control_request frame: Query::handle_control_request
\* up to the first await that can suspend.
RouteControlRequest_Detached ==
    /\ rlPc = "reading"
    /\ inbox # <<>>
    /\ LET f == Head(inbox) IN
        /\ Route(f) = "control_request"
        /\ consumed' = Append(consumed, f)
        /\ IF ~f.hasBody
           THEN /\ rlPc' = "reading"
                /\ UNCHANGED dispatchVars
           ELSE /\ rlPc' = IF NeedsCallback(f) THEN "reading" ELSE "replying"
                /\ cur' = f
                /\ result' = NoResult
    /\ inbox' = Tail(inbox)
    /\ UNCHANGED <<framingVars, handleVars, queryVars, tableVars, lockOwner, ready, written,
                   peerClosed, arrived, channel, consumerVars, callerVars>>

RouteControlRequest ==
    /\ rlPc = "reading"
    /\ inbox # <<>>
    /\ LET f == Head(inbox) IN
        /\ Route(f) = "control_request"
        /\ consumed' = Append(consumed, f)
        /\ IF ~f.hasBody
           THEN /\ rlPc' = "reading"
                /\ UNCHANGED dispatchVars
           ELSE /\ rlPc' = IF NeedsCallback(f) THEN "callback" ELSE "replying"
                /\ cur' = f
                /\ result' = NoResult
    /\ inbox' = Tail(inbox)
    /\ UNCHANGED <<framingVars, handleVars, queryVars, tableVars, lockOwner, ready, written,
                   peerClosed, arrived, channel, consumerVars, callerVars>>

\* The can_use_tool callback returns.
CallbackReturns ==
    /\ rlPc = "callback"
    /\ \E r \in PermissionResult : result' = r
    /\ rlPc' = "replying"
    /\ UNCHANGED <<framingVars, handleVars, queryVars, tableVars, lockOwner, ready, written, peerVars,
                   consumed, cur, channel, consumerVars, callerVars>>

\* Query::handle_control_request, "Send response": transport.lock().await
\* and write.  The Mutex is not reentrant: while the guard taken by the read
\* loop is alive the lock future stays pending.
SendReply ==
    /\ rlPc \in {"replying", "blocked"}
    /\ IF lockOwner = "free"
       THEN /\ written' = WriteResult(ResponseData(cur, result))
            /\ rlPc' = "reading"
            /\ cur' = NoFrame
            /\ result' = NoResult
       ELSE /\ rlPc' = "blocked"
            /\ UNCHANGED <<written, dispatchVars>>
    /\ UNCHANGED <<framingVars, handleVars, queryVars, tableVars, lockOwner, ready, peerVars, consumed,
                   channel, consumerVars, callerVars>>

\* stream.next() yields any other Ok value: forwarded on message_tx.
RouteOrdinary ==
    /\ rlPc = "reading"
    /\ inbox # <<>>
    /\ LET f == Head(inbox) IN
        /\ Route(f) = "regular"
        /\ consumed' = Append(consumed, f)
        /\ IF SendFails
           THEN /\ rlPc' = "done"
                /\ lockOwner' = "free"
                /\ UNCHANGED channel
           ELSE /\ channel' = Append(channel, f)
                /\ UNCHANGED <<rlPc, lockOwner>>
    /\ inbox' = Tail(inbox)
    /\ UNCHANGED <<framingVars, handleVars, queryVars, tableVars, ready, written, peerClosed, arrived,
                   dispatchVars, consumerVars, callerVars>>

\* stream.next() yields Err(e): forwarded, then the loop breaks.
RouteErr ==
    /\ rlPc = "reading"
    /\ inbox # <<>>
    /\ LET f == Head(inbox) IN
        /\ Route(f) = "err"
        /\ consumed' = Append(consumed, f)
        /\ channel' = IF SendFails THEN channel ELSE Append(channel, f)
    /\ inbox' = Tail(inbox)
    /\ rlPc' = "done"
    /\ lockOwner' = "free"
    /\ UNCHANGED <<framingVars, handleVars, queryVars, tableVars, ready, written, peerClosed, arrived,
                   dispatchVars, consumerVars, callerVars>>

\* stream.next() yields None: the task ends and drops its guard.
ReadLoopEnd ==
    /\ rlPc = "reading"
    /\ inbox = <<>>
    /\ peerClosed
    /\ rlPc' = "done"
    /\ lockOwner' = "free"
    /\ UNCHANGED <<framingVars, handleVars, queryVars, tableVars, ready, written, peerVars, consumed,
                   dispatchVars, channel, consumerVars, callerVars>>

\* ---------------------------------------------------------------- callers
ControlOps == {"interrupt", "set_permission_mode"}

\* Caller tasks are interchangeable: the next one to act is the lowest idle.
FirstIdle(c) == \A d \in Callers : d < c => pc[d] # "idle"

\* send_control_request without the check of the streaming flag.
SendControlRequest_NoStreamingCheck(c, o) ==
    /\ pc[c] = "idle"
    /\ FirstIdle(c)
    /\ op' = [op EXCEPT ![c] = o]
    /\ request_counter' = request_counter + 1
    /\ rid' = [rid EXCEPT ![c] = request_counter + 1]
    /\ pc' = [pc EXCEPT ![c] = "register"]
    /\ UNCHANGED <<framingVars, handleVars, queryVars, lockOwner, ready, written,
                   peerVars, consumed, rlPc, dispatchVars, channel,
                   consumerVars, returned, pending_responses, oneshot,
                   resolved, outcomes>>

\* send_control_request that reads the counter and does not store it back.
SendControlRequest_StaleCounter(c, o) ==
    /\ pc[c] = "idle"
    /\ FirstIdle(c)
    /\ is_streaming
    /\ op' = [op EXCEPT ![c] = o]
    /\ rid' = [rid EXCEPT ![c] = request_counter + 1]
    /\ pc' = [pc EXCEPT ![c] = "register"]
    /\ UNCHANGED <<framingVars, handleVars, queryVars, lockOwner, ready, written,
                   peerVars, consumed, rlPc, dispatchVars, channel,
                   consumerVars, returned, tableVars, outcomes>>

\* Query::send_control_request up to the release of the counter lock
\* (reached through Query::interrupt, Query::set_permission_mode and, in
\* streaming mode, Query::initialize): the streaming check, then
\* request_counter.lock().await; *counter += 1; the id is formatted from the
\* new value; drop(counter).
SendControlRequest(c, o) ==
    /\ pc[c] = "idle"
    /\ FirstIdle(c)
    /\ o \in ControlOps \cup {"initialize"}
    /\ op' = [op EXCEPT ![c] = o]
    /\ IF ~is_streaming
       THEN /\ outcomes' = [outcomes EXCEPT ![c] = Append(@, "ControlProtocol")]
            /\ pc' = [pc EXCEPT ![c] = "done"]
            /\ UNCHANGED <<tableVars, rid>>
       ELSE /\ request_counter' = request_counter + 1
            /\ rid' = [rid EXCEPT ![c] = request_counter + 1]
            /\ pc' = [pc EXCEPT ![c] = "register"]
            /\ UNCHANGED <<pending_responses, oneshot, outcomes, resolved>>
    /\ UNCHANGED <<framingVars, handleVars, queryVars, lockOwner, ready, written,
                   peerVars, consumed, rlPc, dispatchVars, channel,
                   consumerVars, returned>>

\* send_control_request, "Register pending response": oneshot::channel();
\* pending_responses.lock().await.insert(request_id, tx).
RegisterPending(c) ==
    /\ pc[c] = "register"
    /\ pending_responses' = pending_responses \cup {rid[c]}
    /\ oneshot' = [oneshot EXCEPT ![rid[c]] = "waiting"]
    /\ pc' = [pc EXCEPT ![c] = "wantLock"]
    /\ UNCHANGED <<framingVars, handleVars, queryVars, request_counter,
                   resolved, lockOwner, ready, written, peerVars, consumed,
                   rlPc, dispatchVars, channel, consumerVars, op, rid,
                   outcomes, returned>>

\* Query::initialize: Ok(None) at once when the Query is not in streaming
\* mode, otherwise send_control_request with subtype "initialize".
Initialize(c) ==
    IF ~is_streaming
    THEN /\ pc[c] = "idle"
         /\ FirstIdle(c)
         /\ op' = [op EXCEPT ![c] = "initialize"]
         /\ outcomes' = [outcomes EXCEPT ![c] = Append(@, "Ok")]
         /\ returned' = [returned EXCEPT ![c] = Null]
         /\ pc' = [pc EXCEPT ![c] = "done"]
         /\ UNCHANGED <<framingVars, handleVars, queryVars, tableVars,
                        lockOwner, ready, written, peerVars, consumed, rlPc,
                        dispatchVars, channel, consumerVars, rid>>
    ELSE SendControlRequest(c, "initialize")

\* ClaudeSDKClient::query up to query.transport.lock().await; the client
\* always builds its Query in streaming mode.
ClientQuery(c) ==
    /\ pc[c] = "idle"
    /\ FirstIdle(c)
    /\ is_streaming
    /\ op' = [op EXCEPT ![c] = "query"]
    /\ pc' = [pc EXCEPT ![c] = "wantLock"]
    /\ UNCHANGED <<framingVars, handleVars, queryVars, tableVars, lockOwner, ready, written, peerVars,
                   consumed, rlPc, dispatchVars, channel, consumerVars, rid,
                   outcomes, returned>>

\* A write whose error is dropped instead of returned with `?`.
LockAndWrite_SwallowsError(c) ==
    /\ pc[c] = "wantLock"
    /\ lockOwner = "free"
    /\ written' = WriteResult(IF op[c] = "query" THEN UserMessage
                              ELSE OutboundRequest(rid[c], op[c]))
    /\ IF op[c] = "query"
       THEN /\ outcomes' = [outcomes EXCEPT ![c] = Append(@, "Ok")]
            /\ pc' = [pc EXCEPT ![c] = "done"]
       ELSE /\ pc' = [pc EXCEPT ![c] = "awaiting"]
            /\ UNCHANGED outcomes
    /\ UNCHANGED <<framingVars, handleVars, queryVars, tableVars, lockOwner,
                   ready, peerVars, consumed, rlPc, dispatchVars, channel,
                   consumerVars, op, rid, returned>>

\* transport.lock().await; transport.write(line).await?; drop(transport)
\* in send_control_request and in ClaudeSDKClient::query.
LockAndWrite(c) ==
    /\ pc[c] = "wantLock"
    /\ lockOwner = "free"
    /\ written' = WriteResult(IF op[c] = "query" THEN UserMessage
                              ELSE OutboundRequest(rid[c], op[c]))
    /\ IF ~WriteOk
       THEN /\ outcomes' = [outcomes EXCEPT ![c] = Append(@, "Transport")]
            /\ pc' = [pc EXCEPT ![c] = "done"]
            /\ oneshot' = IF op[c] = "query" THEN oneshot
                          ELSE [oneshot EXCEPT ![rid[c]] = "rx_dropped"]
       ELSE IF op[c] = "query"
       THEN /\ outcomes' = [outcomes EXCEPT ![c] = Append(@, "Ok")]
            /\ pc' = [pc EXCEPT ![c] = "done"]
            /\ UNCHANGED oneshot
       ELSE /\ pc' = [pc EXCEPT ![c] = "awaiting"]
            /\ UNCHANGED <<outcomes, oneshot>>
    /\ UNCHANGED <<framingVars, handleVars, queryVars, request_counter, pending_responses, lockOwner,
                   ready, peerVars, consumed, rlPc, dispatchVars, channel,
                   consumerVars, op, rid, resolved, returned>>

\* tokio::time::timeout(60 s, rx) completes with the value sent on tx.
AwaitResolved(c) ==
    /\ pc[c] = "awaiting"
    /\ oneshot[rid[c]] \in {"Ok", "Err"}
    /\ outcomes' = [outcomes EXCEPT ![c] =
          Append(@, IF oneshot[rid[c]] = "Ok" THEN "Ok" ELSE "ControlProtocol")]
    /\ oneshot' = [oneshot EXCEPT ![rid[c]] = "taken"]
    /\ returned' = [returned EXCEPT ![c] = resolved[rid[c]]]
    /\ pc' = [pc EXCEPT ![c] = "done"]
    /\ UNCHANGED <<framingVars, handleVars, queryVars, request_counter, pending_responses,
                   lockOwner, ready, written, peerVars, consumed, rlPc,
                   dispatchVars, channel, consumerVars, op, rid, resolved>>

\* tokio::time::timeout(60 s, rx) elapses: Err(Timeout) is returned and rx is
\* dropped; nothing else is done.
AwaitTimeout(c) ==
    /\ pc[c] = "awaiting"
    /\ oneshot[rid[c]] = "waiting"
    /\ outcomes' = [outcomes EXCEPT ![c] = Append(@, "Timeout")]
    /\ oneshot' = [oneshot EXCEPT ![rid[c]] = "rx_dropped"]
    /\ pc' = [pc EXCEPT ![c] = "done"]
    /\ UNCHANGED <<framingVars, handleVars, queryVars, request_counter, pending_responses,
                   lockOwner, ready, written, peerVars, consumed, rlPc,
                   dispatchVars, channel, consumerVars, op, rid, resolved,
                   returned>>

\* Query::close: transport.lock().await; transport.close().  The subprocess
\* is killed, so its output ends.
Close ==
    /\ lockOwner = "free"
    /\ ready
    /\ ready' = FALSE
    /\ stdin' = "none"
    /\ process' = "none"
    /\ peerClosed' = TRUE
    /\ UNCHANGED <<framingVars, calls, message_rx, msgStream, yielded, queryVars, tableVars, lockOwner, written, inbox, arrived,
                   consumed, rlPc, dispatchVars, channel, consumerVars,
                   callerVars>>

\* --------------------------------------------------------------- consumer
\* Live senders of the message channel: Query.message_tx, which lives as
\* long as the Query the stream borrows, and the clone moved into the
\* read-loop task.
Senders ==
    1 + (IF rlPc \in {"spawned", "reading", "callback", "replying", "blocked"}
         THEN 1 ELSE 0)

\* Query::receive_messages: message_rx.take().unwrap().  The stream borrows
\* the Query mutably, so a new call is possible only when no earlier stream
\* is alive; unwrap() panics when the receiver was taken by an earlier call.
TakeReceiver(v) ==
    /\ rxState \in {"stored", "dropped"}
    /\ cPc # "panicked"
    /\ IF rxState = "stored"
       THEN /\ rxState' = "taken"
            /\ view' = v
            /\ UNCHANGED cPc
       ELSE /\ cPc' = "panicked"
            /\ UNCHANGED <<rxState, view>>
    /\ UNCHANGED <<framingVars, handleVars, queryVars, tableVars, lockOwner, ready,
                   written, peerVars, consumed, rlPc, dispatchVars, channel,
                   rxPos, callerVars>>

\* Query::receive_messages, also behind ClaudeSDKClient::receive_messages.
ReceiveMessages == TakeReceiver("messages")

\* ClaudeSDKClient::receive_response: receive_messages().take_while(..)
ReceiveResponse == TakeReceiver("response")

\* parse_message gives Message::Result for a frame of type "result".
IsResultMessage(f) == f.kind = "ok" /\ f.type = "result"

\* The predicate of take_while in receive_response is false for f: the
\* adaptor drops f and ends the stream.
StopsAt(v, f) == v = "response" /\ IsResultMessage(f)

\* Items held by the receiver of the message channel; they are destroyed
\* with the receiver.
Queue ==
    IF rxState = "dropped" THEN <<>>
    ELSE SubSeq(channel, rxPos + 1, Len(channel))

\* stream.next(): an item if one is queued, end-of-stream if every sender is
\* gone, otherwise pending.  Under take_while a queued Result message is
\* taken from the receiver and the stream ends.
StreamNext ==
    /\ rxState = "taken"
    /\ cPc # "ended"
    /\ IF rxPos < Len(channel)
       THEN /\ rxPos' = rxPos + 1
            /\ cPc' = IF StopsAt(view, channel[rxPos + 1])
                      THEN "ended" ELSE "item"
       ELSE IF Senders = 0
       THEN rxPos' = rxPos /\ cPc' = "ended"
       ELSE rxPos' = rxPos /\ cPc' = "pending"
    /\ UNCHANGED <<framingVars, handleVars, queryVars, tableVars, lockOwner, ready,
                   written, peerVars, consumed, rlPc, dispatchVars, channel,
                   rxState, view, callerVars>>

\* The consumer drops the stream, and with it the receiver.
DropStream ==
    /\ rxState = "taken"
    /\ rxState' = "dropped"
    /\ UNCHANGED <<framingVars, handleVars, queryVars, tableVars, lockOwner, ready,
                   written, peerVars, consumed, rlPc, dispatchVars, channel,
                   rxPos, cPc, view, callerVars>>

\* ---------------------------------------------------------- specification
ReadLoop ==
    \/ Start
    \/ ReadLoopLock
    \/ RouteControlResponse
    \/ RouteControlRequest
    \/ CallbackReturns
    \/ SendReply
    \/ RouteOrdinary
    \/ RouteErr
    \/ ReadLoopEnd

CallerTasks ==
    \/ \E c \in Callers, o \in ControlOps : SendControlRequest(c, o)
    \/ \E c \in Callers : RegisterPending(c)
    \/ \E c \in Callers : Initialize(c)
    \/ \E c \in Callers : ClientQuery(c)
    \/ \E c \in Callers : LockAndWrite(c)
    \/ \E c \in Callers : AwaitResolved(c)
    \/ \E c \in Callers : AwaitTimeout(c)
    \/ Close

Consumer ==
    \/ ReceiveMessages
    \/ ReceiveResponse
    \/ StreamNext
    \/ DropStream

\* The whole system.  Its state space is the product of the peer, the read
\* loop, the callers and the consumer; the properties are checked under the
\* scenario specifications below, which run the same actions with the callers
\* (SpecControl) or the consumer (SpecStream) as the only application task.
Next ==
    \/ PeerEmit(MaxControlFrames)
    \/ PeerClose
    \/ ReadLoop
    \/ CallerTasks
    \/ Consumer

Spec == Init /\ [][Next]_vars

\* A session in which callers use the control channel and nobody has asked
\* for the message stream yet.
NextControl ==
    \/ PeerEmit(MaxControlFrames)
    \/ PeerClose
    \/ Start
    \/ ReadLoopLock
    \/ RouteControlResponse
    \/ RouteControlRequest
    \/ CallbackReturns
    \/ SendReply
    \/ RouteOrdinary
    \/ RouteErr
    \/ ReadLoopEnd
    \/ \E c \in Callers, o \in ControlOps : SendControlRequest(c, o)
    \/ \E c \in Callers : RegisterPending(c)
    \/ \E c \in Callers : ClientQuery(c)
    \/ \E c \in Callers : LockAndWrite(c)
    \/ \E c \in Callers : AwaitResolved(c)
    \/ \E c \in Callers : AwaitTimeout(c)
    \/ Close

SpecControl == Init /\ [][NextControl]_vars

\* A session in which the caller only consumes the message stream.
NextStream ==
    \/ PeerEmit(MaxStreamFrames)
    \/ PeerClose
    \/ Start
    \/ ReadLoopLock
    \/ RouteControlResponse
    \/ RouteControlRequest
    \/ CallbackReturns
    \/ SendReply
    \/ RouteOrdinary
    \/ RouteErr
    \/ ReadLoopEnd
    \/ ReceiveMessages
    \/ StreamNext
    \/ DropStream

SpecStream == Init /\ [][NextStream]_vars

\* A session of ClaudeSDKClient, which builds its Query in streaming mode:
\* the application takes the stream of one turn with receive_messages or
\* receive_response, drops it, and asks for the stream of the next turn.
InitClient == Init /\ is_streaming

NextClient ==
    \/ PeerEmit(MaxStreamFrames)
    \/ PeerClose
    \/ Start
    \/ ReadLoopLock
    \/ RouteControlResponse
    \/ RouteControlRequest
    \/ CallbackReturns
    \/ SendReply
    \/ RouteOrdinary
    \/ RouteErr
    \/ ReadLoopEnd
    \/ ReceiveMessages
    \/ ReceiveResponse
    \/ StreamNext
    \/ DropStream

SpecClient == InitClient /\ [][NextClient]_vars

\* The subprocess prints one more ordinary frame.
PeerEmitsOrdinary ==
    /\ ~peerClosed
    /\ Len(arrived) < MaxStreamFrames
    /\ Len(inbox) < MaxInFlight
    /\ \E t \in {"assistant", "result"} :
        LET f == OrdinaryFrame(Len(arrived) + 1, t) IN
        /\ inbox' = Append(inbox, f)
        /\ arrived' = Append(arrived, f)
    /\ UNCHANGED <<framingVars, handleVars, queryVars, tableVars, lockOwner,
                   ready, written, peerClosed, consumed, rlPc, dispatchVars,
                   channel, consumerVars, callerVars>>

\* A streaming Query over a transport whose read sequence holds ordinary
\* frames only: start(), then initialize(), then receive_messages(), as in
\* test_streaming_conversation.
InitOrdinary == Init /\ is_streaming /\ ~can_use_tool

NextOrdinary ==
    \/ PeerEmitsOrdinary
    \/ PeerClose
    \/ Start
    \/ ReadLoopLock
    \/ RouteOrdinary
    \/ ReadLoopEnd
    \/ rlPc # "unstarted" /\ Initialize(1)
    \/ RegisterPending(1)
    \/ LockAndWrite(1)
    \/ AwaitTimeout(1)
    \/ pc[1] = "done" /\ ReceiveMessages
    \/ StreamNext

SpecOrdinary == InitOrdinary /\ [][NextOrdinary]_vars

\* ------------------------------------------- the transport, called directly
\* The fields of SubprocessCLITransport that connect, write, end_input and
\* close read and assign.
Handle == [ready |-> ready, stdin |-> stdin, process |-> process]

\* One entry of `calls`: the method, what it returned, and how many items
\* read_stdout had sent when it was called.
Call(o, r) == [op |-> o, result |-> r, sent |-> Len(tx)]

\* SubprocessCLITransport::connect: spawn the subprocess (which can fail),
\* take its stdin, spawn read_stdout on its stdout, keep the child, set
\* ready.  One subprocess is spawned in a session.
Connect ==
    /\ Len(calls) < MaxCalls
    /\ msgStream = "none"
    /\ process = "none"
    /\ fpc = "unstarted"
    /\ \/ /\ calls' = Append(calls, Call("connect", "CLIConnection"))
          /\ UNCHANGED <<ready, stdin, process, fpc, message_rx>>
       \/ /\ calls' = Append(calls, Call("connect", "Ok"))
          /\ stdin' = "open"
          /\ process' = "running"
          /\ ready' = TRUE
          /\ fpc' = "reading"
          /\ message_rx' = "stored"
    /\ UNCHANGED <<queryVars, tableVars, lockOwner, written, peerVars,
                   consumed, rlPc, dispatchVars, channel, consumerVars,
                   callerVars, producerVars, stdout, json_buffer, tx,
                   stdoutRx>>
    /\ UNCHANGED <<msgStream, yielded>>

\* SubprocessCLITransport::write.
TransportWrite ==
    /\ Len(calls) < MaxCalls
    /\ msgStream = "none"
    /\ calls' = Append(calls, Call("write", IF WriteOk THEN "Ok"
                                                      ELSE "Transport"))
    /\ written' = WriteResult(UserMessage)
    /\ UNCHANGED <<queryVars, tableVars, lockOwner, ready, stdin, process,
                   peerVars, consumed, rlPc, dispatchVars, channel,
                   consumerVars, callerVars, framingVars>>
    /\ UNCHANGED <<message_rx, msgStream, yielded>>

\* end_input that also clears the ready flag.
EndInputEffect_ClearsReady(t) == [t EXCEPT !.stdin = "none", !.ready = FALSE]

\* SubprocessCLITransport::end_input: self.stdin.take().
EndInputEffect(t) == [t EXCEPT !.stdin = "none"]

\* What end_input returns: shutdown() is called on the handle that was
\* taken, and its failure is returned; without a handle nothing is done.
EndInputResults(t) ==
    IF t.stdin = "broken" THEN {"Ok", "Transport"} ELSE {"Ok"}

TransportEndInput ==
    /\ Len(calls) < MaxCalls
    /\ msgStream = "none"
    /\ \E r \in EndInputResults(Handle) :
           calls' = Append(calls, Call("end_input", r))
    /\ ready' = EndInputEffect(Handle).ready
    /\ stdin' = EndInputEffect(Handle).stdin
    /\ process' = EndInputEffect(Handle).process
    /\ UNCHANGED <<queryVars, tableVars, lockOwner, written, peerVars,
                   consumed, rlPc, dispatchVars, channel, consumerVars,
                   callerVars, framingVars>>
    /\ UNCHANGED <<message_rx, msgStream, yielded>>

\* close that leaves the child process in place.
CloseEffect_KeepsProcess(t) == [t EXCEPT !.ready = FALSE, !.stdin = "none"]

\* SubprocessCLITransport::close: ready = false, stdin.take(),
\* process.take().
CloseEffect(t) == [ready |-> FALSE, stdin |-> "none", process |-> "none"]

\* close ignores the results of shutdown, kill and wait and returns Ok.  A
\* killed subprocess prints nothing more and its standard output ends.
TransportClose ==
    /\ Len(calls) < MaxCalls
    /\ msgStream = "none"
    /\ calls' = Append(calls, Call("close", "Ok"))
    /\ ready' = CloseEffect(Handle).ready
    /\ stdin' = CloseEffect(Handle).stdin
    /\ process' = CloseEffect(Handle).process
    /\ IF process = "running"
       THEN /\ stdoutClosed' = TRUE
            /\ rest' = <<>>
       ELSE UNCHANGED <<stdoutClosed, rest>>
    /\ UNCHANGED <<queryVars, tableVars, lockOwner, written, peerVars,
                   consumed, rlPc, dispatchVars, channel, consumerVars,
                   callerVars, frames, nLines, stdout, json_buffer, tx,
                   stdoutRx, fpc>>
    /\ UNCHANGED <<message_rx, msgStream, yielded>>

\* The subprocess closes its standard input (or exits): the handle the
\* transport holds stays, and writing to it fails.
PeerClosesInput ==
    /\ stdin = "open"
    /\ stdin' = "broken"
    /\ UNCHANGED <<queryVars, tableVars, lockOwner, ready, written, peerVars,
                   consumed, rlPc, dispatchVars, channel, consumerVars,
                   callerVars, framingVars, process, calls>>
    /\ UNCHANGED <<message_rx, msgStream, yielded>>

\* A direct call of read_messages.  The stream it returns borrows the
\* transport mutably, so no other method is called while a stream is alive.
ReadMessages ==
    /\ Len(calls) < MaxCalls
    /\ msgStream = "none"
    /\ calls' = Append(calls, Call("read_messages",
                                   ReadMessagesEffect(message_rx).stream))
    /\ msgStream' = ReadMessagesEffect(message_rx).stream
    /\ message_rx' = ReadMessagesEffect(message_rx).message_rx
    /\ UNCHANGED <<queryVars, tableVars, lockOwner, ready, written, peerVars,
                   consumed, rlPc, dispatchVars, channel, consumerVars,
                   callerVars, framingVars, stdin, process, yielded>>

\* The stream is polled and yields the next item sent on tx; an empty
\* stream yields nothing.
PollMessages ==
    /\ msgStream = "rx"
    /\ Len(yielded) < Len(tx)
    /\ yielded' = Append(yielded, [call |-> Len(calls),
                                   idx |-> Len(yielded) + 1,
                                   item |-> tx[Len(yielded) + 1]])
    /\ UNCHANGED <<queryVars, tableVars, lockOwner, ready, written, peerVars,
                   consumed, rlPc, dispatchVars, channel, consumerVars,
                   callerVars, framingVars, stdin, process, calls,
                   message_rx, msgStream>>

\* The stream is dropped, and with it the receiver it wraps.
DropMessages ==
    /\ msgStream # "none"
    /\ msgStream' = "none"
    /\ stdoutRx' = IF msgStream = "rx" THEN "dropped" ELSE stdoutRx
    /\ UNCHANGED <<queryVars, tableVars, lockOwner, ready, written, peerVars,
                   consumed, rlPc, dispatchVars, channel, consumerVars,
                   callerVars, producerVars, stdout, json_buffer, tx, fpc,
                   stdin, process, calls, message_rx, yielded>>

\* SubprocessCLITransport::new: no process, no stdin, not ready.
InitTransport ==
    /\ QueryInit
    /\ is_streaming
    /\ ~can_use_tool
    /\ ready = FALSE
    /\ stdin = "none"
    /\ process = "none"
    /\ message_rx = "none"

\* The transport used on its own: the application calls connect, write,
\* end_input and close in any order while the subprocess prints frames, one
\* line each.
NextTransport ==
    \/ Connect
    \/ TransportWrite
    \/ TransportEndInput
    \/ TransportClose
    \/ PeerClosesInput
    \/ ReadMessages
    \/ PollMessages
    \/ DropMessages
    \/ PeerBeginFrame(Text_ab)
    \/ rest # <<>> /\ PeerWriteLine(Len(rest))
    \/ PeerCloseStdout
    \/ ReadLine
    \/ ReadEof

SpecTransport == InitTransport /\ [][NextTransport]_vars

\* The framing layer alone: the subprocess prints lines and read_stdout
\* turns them into the items of the transport's read sequence.
InitFraming == Init /\ is_streaming /\ ~can_use_tool

NextFraming ==
    \/ \E t \in FrameTexts : PeerBeginFrame(t)
    \/ \E k \in 1..Len(rest) : PeerWriteLine(k)
    \/ PeerCloseStdout
    \/ SpawnReadStdout
    \/ ReadLine
    \/ ReadEof
    \/ ReadIoError
    \/ DropStdoutRx

SpecFraming == InitFraming /\ [][NextFraming]_vars

\* A session in which concurrent callers send control requests and the
\* subprocess prints control responses (matching, unmatched, repeated, in
\* any order) and assistant messages.
PeerResponds ==
    /\ ~peerClosed
    /\ Len(arrived) < MaxControlFrames
    /\ Len(inbox) < MaxInFlight
    /\ \E f \in {g \in PeerItems(Len(arrived) + 1) :
                    g.type \in {"control_response", "assistant"}} :
        /\ inbox' = Append(inbox, f)
        /\ arrived' = Append(arrived, f)
    /\ UNCHANGED <<framingVars, handleVars, queryVars, tableVars, lockOwner, ready,
                   written, peerClosed, consumed, rlPc, dispatchVars, channel,
                   consumerVars, callerVars>>

InitCorrelation == Init /\ is_streaming /\ ~can_use_tool

NextCorrelation ==
    \/ PeerResponds
    \/ Start
    \/ ReadLoopLock
    \/ RouteControlResponse
    \/ RouteOrdinary
    \/ \E c \in Callers : SendControlRequest(c, "interrupt")
    \/ \E c \in Callers : RegisterPending(c)
    \/ \E c \in Callers : LockAndWrite(c)
    \/ \E c \in Callers : AwaitResolved(c)
    \/ \E c \in Callers : AwaitTimeout(c)

SpecCorrelation == InitCorrelation /\ [][NextCorrelation]_vars

\* A Query built with the streaming flag off, as the one-shot query() of
\* lib.rs builds it: callers try the control operations while the read loop
\* forwards what the subprocess prints.
InitInert == Init /\ ~is_streaming /\ ~can_use_tool

NextInert ==
    \/ PeerResponds
    \/ Start
    \/ ReadLoopLock
    \/ RouteControlResponse
    \/ RouteOrdinary
    \/ \E c \in Callers, o \in ControlOps : SendControlRequest(c, o)
    \/ \E c \in Callers : Initialize(c)

SpecInert == InitInert /\ [][NextInert]_vars

\* A session in which the subprocess may stop reading its input while
\* callers send control requests and user messages and the read loop routes
\* what the subprocess prints.
InitWrite == Init /\ is_streaming /\ ~can_use_tool

NextWrite ==
    \/ PeerResponds
    \/ PeerClosesInput
    \/ Start
    \/ ReadLoopLock
    \/ RouteControlResponse
    \/ RouteOrdinary
    \/ \E c \in Callers : SendControlRequest(c, "interrupt")
    \/ \E c \in Callers : RegisterPending(c)
    \/ \E c \in Callers : ClientQuery(c)
    \/ \E c \in Callers : LockAndWrite(c)
    \/ \E c \in Callers : AwaitResolved(c)

SpecWrite == InitWrite /\ [][NextWrite]_vars

TypeOK ==
    /\ pending_responses \subseteq RequestIds
    /\ request_counter \in 0..MaxCallers
    /\ lockOwner \in {"free", "read_loop"}
    /\ rlPc \in {"unstarted", "spawned", "reading", "callback", "replying",
                 "blocked", "done"}

\* A session in which the subprocess answers every control request it
\* reads with a success response, and no deadline expires.
Answered ==
    {arrived[i].request_id :
        i \in {j \in 1..Len(arrived) : arrived[j].type = "control_response"}}

PeerAnswers ==
    /\ ~peerClosed
    /\ \E id \in AnswerableIds \ Answered :
        LET f == InboundResponse(Len(arrived) + 1, id, "success") IN
        /\ inbox' = Append(inbox, f)
        /\ arrived' = Append(arrived, f)
    /\ UNCHANGED <<framingVars, handleVars, queryVars, tableVars, lockOwner, ready, written,
                   peerClosed, consumed, rlPc, dispatchVars, channel,
                   consumerVars, callerVars>>

InitLive == Init /\ is_streaming

NextLive ==
    \/ PeerAnswers
    \/ Start
    \/ ReadLoopLock
    \/ RouteControlResponse
    \/ \E c \in Callers, o \in ControlOps : SendControlRequest(c, o)
    \/ \E c \in Callers : RegisterPending(c)
    \/ \E c \in Callers : LockAndWrite(c)
    \/ \E c \in Callers : AwaitResolved(c)

\* Every task is scheduled by the runtime and the subprocess answers.
SpecLive ==
    /\ InitLive
    /\ [][NextLive]_vars
    /\ WF_vars(PeerAnswers)
    /\ WF_vars(ReadLoopLock)
    /\ WF_vars(RouteControlResponse)
    /\ \A c \in Callers : WF_vars(LockAndWrite(c))
    /\ \A c \in Callers : WF_vars(AwaitResolved(c))

\* ClaudeSDKClient::connect: start(), then initialize(), with a subprocess
\* that answers the initialize request it reads and prints ordinary frames.
InitConnect == Init /\ is_streaming /\ ~can_use_tool

NextConnect ==
    \/ PeerAnswers
    \/ PeerEmitsOrdinary
    \/ Start
    \/ ReadLoopLock
    \/ RouteControlResponse
    \/ RouteOrdinary
    \/ rlPc # "unstarted" /\ Initialize(1)
    \/ RegisterPending(1)
    \/ LockAndWrite(1)
    \/ AwaitResolved(1)

\* Every task is scheduled by the runtime, the subprocess answers, and no
\* deadline expires.
SpecConnect ==
    /\ InitConnect
    /\ [][NextConnect]_vars
    /\ WF_vars(PeerAnswers)
    /\ WF_vars(Start)
    /\ WF_vars(ReadLoopLock)
    /\ WF_vars(RouteControlResponse)
    /\ WF_vars(RouteOrdinary)
    /\ WF_vars(rlPc # "unstarted" /\ Initialize(1))
    /\ WF_vars(RegisterPending(1))
    /\ WF_vars(LockAndWrite(1))
    /\ WF_vars(AwaitResolved(1))

\* A session in which the application takes the message stream, drops it,
\* and then sends control requests, while the subprocess prints control
\* responses and assistant messages.
InitDetached == Init /\ is_streaming /\ ~can_use_tool

NextDetached ==
    \/ PeerResponds
    \/ Start
    \/ ReadLoopLock
    \/ RouteControlResponse
    \/ RouteOrdinary
    \/ ReceiveMessages
    \/ StreamNext
    \/ DropStream
    \/ \E c \in Callers :
          rxState = "dropped" /\ SendControlRequest(c, "interrupt")
    \/ \E c \in Callers : RegisterPending(c)
    \/ \E c \in Callers : LockAndWrite(c)
    \/ \E c \in Callers : AwaitResolved(c)
    \/ \E c \in Callers : AwaitTimeout(c)

SpecDetached == InitDetached /\ [][NextDetached]_vars

\* ------------------------------------------------------------- properties
Range(s) == {s[i] : i \in 1..Len(s)}

IsPrefix(s, t) == Len(s) <= Len(t) /\ SubSeq(t, 1, Len(s)) = s

\* Control frames as the protocol defines them.
IsControl(f) ==
    f.kind = "ok" /\ f.type \in {"control_response", "control_request"}

FilterOrdinary(s) == SelectSeq(s, LAMBDA f : ~IsControl(f))

\* Inbound control_request frames the read loop has taken.
RequestsRead == {f \in Range(consumed) : f.type = "control_request"}

\* The handler of f is running and has not reached its write yet.
InDispatch(f) == cur = f /\ rlPc \in {"callback", "replying"}

\* control_response lines written for inbound request id r.
RepliesTo(r) ==
    {i \in 1..Len(written) :
        written[i].type = "control_response" /\ written[i].request_id = r}

\* C1: when the deadline of an outbound control request expires, the caller
\* gets the timeout error exactly once and the correlation table holds no
\* entry for the request id at the moment the error is returned.
C1_TimeoutRemovesEntry ==
    [][\A c \in Callers :
        (pc[c] = "awaiting" /\ pc'[c] = "done"
            /\ outcomes'[c] = Append(outcomes[c], "Timeout"))
        => (outcomes'[c] = <<"Timeout">> /\ rid[c] \notin pending_responses')
      ]_vars

\* C2: with the read loop running, an interrupt() or set_permission_mode()
\* call that the subprocess answers with success eventually returns success,
\* and the table then has no entry for its id.
C2_InterruptReturns ==
    \A c \in Callers :
        [](pc[c] = "wantLock" /\ rlPc = "reading"
            => <>(outcomes[c] = <<"Ok">> /\ rid[c] \notin pending_responses))

\* C3: a can_use_tool request read while no permission callback is registered
\* is answered with an error control_response for its id, and the read loop
\* does not hang on it.
C3_MissingCallbackErrorReply ==
    \A f \in RequestsRead :
        (f.hasBody /\ f.subtype = "can_use_tool" /\ ~can_use_tool
            /\ ~InDispatch(f))
        => /\ \E i \in RepliesTo(f.request_id) : written[i].subtype = "error"
           /\ ~(cur = f /\ rlPc = "blocked")

\* C4: when the permission callback returns Deny{message m} for request r, the
\* engine writes exactly one frame, the success control_response for r with
\* payload {allow: false, reason: m}.
C4_DenyReplyWritten ==
    [][(rlPc = "replying" /\ result.variant = "Deny" /\ rlPc' # "replying")
        => /\ written' = Append(written,
                SuccessReply(cur.request_id,
                    <<"allow", "false", "reason", result.message>>))
           /\ Cardinality({i \in 1..Len(written') :
                  written'[i].request_id = cur.request_id
                  /\ written'[i].type = "control_response"}) = 1
      ]_vars

C6_AnsweredExactlyOnce ==
    \A f \in RequestsRead :
        ~InDispatch(f) => Cardinality(RepliesTo(f.request_id)) = 1

\* C7: while the read loop is suspended waiting for the next frame, a caller
\* that wants to write can take the write path and complete its write.
C7_WriteNotBlockedByRead ==
    \A c \in Callers :
        (pc[c] = "wantLock" /\ rlPc = "reading" /\ inbox = <<>>)
        => ENABLED LockAndWrite(c)

\* C8: a PendingRequest that reached a terminal state (resolved-ok,
\* resolved-error, timed-out) gave its caller one outcome and is no longer in
\* the correlation table.
C8_TerminalStateRemoved ==
    \A c \in Callers :
        (pc[c] = "done" /\ rid[c] # 0 /\ outcomes[c] # <<"Transport">>)
        => /\ outcomes[c] \in {<<"Ok">>, <<"ControlProtocol">>, <<"Timeout">>}
           /\ rid[c] \notin pending_responses

\* C9: once the read loop has processed the control_response matching an
\* outbound request before its deadline, the table holds no entry for that id.
C9_ResolvedEntryRemoved ==
    \A id \in RequestIds :
        oneshot[id] \in {"Ok", "Err", "taken"} => id \notin pending_responses

C9_Witness ==
    \E c \in Callers :
        /\ pc[c] = "awaiting"
        /\ oneshot[rid[c]] \in {"Ok", "Err"}
        /\ Len(consumed) > 0
        /\ consumed[Len(consumed)].type = "control_response"
        /\ consumed[Len(consumed)].request_id = rid[c]

\* C10: once the frame sequence has ended and the read loop has forwarded its
\* last frame, a consumer that has received every forwarded item gets
\* end-of-stream from its next poll.
C10_StreamEnds ==
    [][(rlPc = "done" /\ peerClosed /\ inbox = <<>> /\ rxState = "taken"
            /\ rxPos = Len(channel) /\ cPc' # cPc)
        => cPc' = "ended"
      ]_vars

\* C11: a decode failure is delivered as one error item on the message
\* stream and does not end it: no valid ordinary frame that arrived after an
\* error item the read loop has taken is left unread by a finished read loop
\* while the receiver of the stream is alive.
C11_DecodeErrorContinues ==
    \A e \in Range(consumed) :
        (e.kind = "err" /\ rxState # "dropped")
        => /\ Cardinality({i \in 1..Len(channel) : channel[i] = e}) = 1
           /\ \A f \in Range(inbox) :
                (f.kind = "ok" /\ ~IsControl(f)) => rlPc # "done"

\* C12: when reading the subprocess's output fails with an I/O error, the
\* read sequence carries one final error item before it ends; it does not
\* end as if the output had been closed.
C12_IoErrorDelivered ==
    (fpc = "io_error" /\ stdoutRx = "alive")
    => (tx # <<>> /\ tx[Len(tx)].kind = "io_error")

\* Items read_stdout sends for a list of lines, starting from buffer buf,
\* while the receiver is alive.
RECURSIVE Emitted(_, _)
Emitted(lines, buf) ==
    IF lines = <<>> THEN <<>>
    ELSE LET step == LineStep(buf, Head(lines)) IN
         (IF step.item.kind = "none" THEN <<>> ELSE <<step.item>>)
         \o Emitted(Tail(lines), step.json_buffer)

\* C20: however the text of the frames is cut into physical lines, read_stdout
\* emits the values it emits when every frame is one line, provided no frame
\* is larger than the configured maximum.
C20_SplitInvariant ==
    (/\ fpc = "eof"
     /\ stdoutRx = "alive"
     /\ \A i \in 1..Len(frames) :
            /\ Decode(frames[i]).kind = "value"
            /\ Len(frames[i]) <= max_buffer_size)
    => tx = Emitted(frames, <<>>)

\* C13: after the stream of one turn has been dropped, a further call of
\* receive_messages / receive_response does not panic, and no ordinary
\* message the read loop has taken is lost.
C13_NextTurnStream ==
    /\ cPc # "panicked"
    /\ rxState = "dropped" => channel = FilterOrdinary(consumed)

\* C14: the stream of receive_response takes nothing from the underlying
\* sequence beyond the first Result message, stops there, and every ordinary
\* frame the read loop takes after that Result message is still held by the
\* underlying sequence.
C14_ResponseStopsAtResult ==
    view = "response"
    => /\ \A i \in 1..(rxPos - 1) : ~IsResultMessage(channel[i])
       /\ (rxPos >= 1 /\ IsResultMessage(channel[rxPos]))
          => /\ rxState = "taken" => cPc = "ended"
             /\ \A f \in Range(consumed) :
                    (~IsControl(f) /\ f.seq > channel[rxPos].seq)
                    => f \in Range(Queue)

\* C15: the reply to an inbound control_request is written before the read
\* loop takes the next frame: every control_request followed by another
\* taken frame has its control_response on the wire.
C15_ReplyBeforeNextRead ==
    \A i \in 1..(Len(consumed) - 1) :
        (consumed[i].kind = "ok" /\ consumed[i].type = "control_request")
        => RepliesTo(consumed[i].request_id) # {}

\* C16: a control_request whose subtype is not one the engine knows is
\* answered with an error control_response whose text names that subtype; it
\* is not dropped.
C16_UnknownSubtypeErrorReply ==
    \A f \in RequestsRead :
        (/\ f.hasBody
         /\ f.subtype \notin {"can_use_tool", "initialize", "interrupt",
                              "set_permission_mode", "hook_callback",
                              "mcp_message"}
         /\ ~InDispatch(f))
        => \E i \in RepliesTo(f.request_id) :
            /\ written[i].subtype = "error"
            /\ written[i].error =
                "Control protocol error: Unknown request subtype: "
                    \o f.subtype

\* control_response frames, as the protocol defines them.
IsControlResponse(f) == f.kind = "ok" /\ f.type = "control_response"

\* The read loop takes frame f in this step.
Takes(f) ==
    /\ rlPc = "reading"
    /\ inbox # <<>>
    /\ Head(inbox) = f
    /\ consumed' = Append(consumed, f)

\* Value a control_response carries for its caller.
Carried(f) == IF f.payload THEN f.seq ELSE Null

\* C17: a control_response whose id is not in the correlation table is
\* dropped silently: the table, the waiting callers and the message stream
\* stay as they are, no error is raised and the read loop goes on reading.
C17_UnmatchedResponseDropped ==
    [][\A f \in Range(inbox) :
        (IsControlResponse(f) /\ f.request_id \notin pending_responses
            /\ Takes(f))
        => /\ UNCHANGED <<pending_responses, oneshot, resolved, channel,
                          written, callerVars>>
           /\ rlPc' = "reading"
      ]_vars

C17_Witness ==
    /\ Len(consumed) >= 2
    /\ IsControlResponse(consumed[1])
    /\ consumed[1].request_id = 0
    /\ pending_responses # {}
    /\ \E c \in Callers : pc[c] = "awaiting" /\ oneshot[rid[c]] = "waiting"

\* The first control_response the read loop took for request id.
FirstResponse(id) ==
    LET at == {i \in 1..Len(consumed) :
                  IsControlResponse(consumed[i])
                  /\ consumed[i].request_id = id}
    IN consumed[CHOOSE i \in at : \A j \in at : i <= j]

\* C18: a control_response whose id is in the table resolves the waiting
\* caller with a protocol error when its subtype is error and with the
\* embedded payload (null when absent) otherwise; a success response never
\* gives an error and an error response never gives a success.
C18_ResolvedBySubtype ==
    /\ \A id \in RequestIds :
        oneshot[id] \in {"Ok", "Err"}
        => /\ (oneshot[id] = "Err") <=> (FirstResponse(id).subtype = "error")
           /\ resolved[id] = Carried(FirstResponse(id))
    /\ \A c \in Callers :
        (pc[c] = "done" /\ oneshot[rid[c]] = "taken")
        => /\ outcomes[c] =
                IF FirstResponse(rid[c]).subtype = "error"
                THEN <<"ControlProtocol">> ELSE <<"Ok">>
           /\ returned[c] = Carried(FirstResponse(rid[c]))

C18_Witness ==
    \E c, d \in Callers :
        /\ pc[c] = "done" /\ pc[d] = "done"
        /\ oneshot[rid[c]] = "taken" /\ oneshot[rid[d]] = "taken"
        /\ outcomes[c] = <<"ControlProtocol">>
        /\ outcomes[d] = <<"Ok">>
        /\ returned[d] # Null

\* C19: with several requests pending, a response resolves exactly the
\* request whose id it carries, with that response's payload, and leaves
\* every other pending request registered and unresolved, whatever the order
\* in which the responses arrive.
C19_ResolvesOnlyItsCaller ==
    [][\A f \in Range(inbox) :
        (IsControlResponse(f) /\ f.request_id \in pending_responses
            /\ Takes(f))
        => /\ f.request_id \notin pending_responses'
           /\ oneshot[f.request_id] = "waiting"
              => /\ oneshot'[f.request_id] \in {"Ok", "Err"}
                 /\ resolved'[f.request_id] = Carried(f)
           /\ \A id \in RequestIds \ {f.request_id} :
                /\ id \in pending_responses' <=> id \in pending_responses
                /\ oneshot'[id] = oneshot[id]
                /\ resolved'[id] = resolved[id]
           /\ UNCHANGED callerVars
      ]_vars

C19_Witness ==
    \E c, d \in Callers :
        /\ rid[c] # 0
        /\ rid[c] < rid[d]
        /\ pc[c] = "awaiting" /\ pc[d] = "awaiting"
        /\ rid[c] \in pending_responses
        /\ oneshot[rid[c]] = "waiting"
        /\ oneshot[rid[d]] \in {"Ok", "Err"}
        /\ resolved[rid[d]] = Carried(FirstResponse(rid[d]))

\* read_stdout takes the next physical line in this step.
ReadsLine ==
    /\ fpc = "reading"
    /\ stdout # <<>>
    /\ stdout' = Tail(stdout)

\* C21: whenever appending a line makes the accumulation buffer exceed the
\* maximum, read_stdout emits exactly one decode-error item and empties the
\* buffer, so the next line starts a fresh frame: a valid line read with an
\* empty buffer is decoded and emitted on its own.
C21_OverflowOneError ==
    [][(ReadsLine /\ stdoutRx = "alive")
        => LET line == Trim(Head(stdout)) IN
           /\ (line # <<>> /\ Len(json_buffer) + Len(line) > max_buffer_size)
              => /\ tx' = Append(tx, DecodeError)
                 /\ json_buffer' = <<>>
                 /\ fpc' = "reading"
           /\ (json_buffer = <<>> /\ Decode(line).kind = "value"
                  /\ Len(line) <= max_buffer_size)
              => /\ tx' = Append(tx, Decode(line))
                 /\ json_buffer' = <<>>
      ]_vars

C21_Witness ==
    /\ frames = <<Text_malformed, Text_malformed, Text_ab>>
    /\ nLines = 3
    /\ stdout = <<>>
    /\ json_buffer = <<>>
    /\ tx = <<DecodeError, Decode(Text_ab)>>

\* C22: no frame the read loop has taken is lost: a control_response has
\* resolved its request or was the unmatched drop, a control_request has
\* exactly one reply on the wire, and every other frame, with or without a
\* string `type`, is on the message channel exactly once.
C22_NoSilentLoss ==
    \A i \in 1..Len(consumed) :
        LET f == consumed[i] IN
        ~InDispatch(f)
        => IF IsControlResponse(f)
           THEN f.request_id \in RequestIds
                => oneshot[f.request_id] # "waiting"
           ELSE IF f.kind = "ok" /\ f.type = "control_request"
           THEN Cardinality(RepliesTo(f.request_id)) = 1
           ELSE Cardinality({j \in 1..Len(channel) : channel[j] = f}) = 1

\* The can_use_tool callback has been invoked for the request in `cur` and
\* has not returned.
InCallback == cur.kind = "ok" /\ NeedsCallback(cur) /\ result = NoResult

\* C24: dispatch is synchronous: from the invocation of the can_use_tool
\* callback until it returns, the read loop takes no further frame and puts
\* no further item on the message channel.
C24_DispatchSynchronous ==
    [][InCallback => consumed' = consumed /\ channel' = channel]_vars

C24_Witness ==
    /\ InCallback
    /\ rlPc = "callback"
    /\ inbox # <<>>
    /\ Head(inbox).kind = "ok"

\* C30: when the peer closes its output, read_stdout ends after the last
\* decoded frame: it stops only when every line has been read and the pipe
\* is closed, and ending appends nothing, in particular no error item, to
\* the frame sequence.
C30_EofEndsNormally ==
    [][(fpc = "reading" /\ fpc' = "eof")
        => /\ stdoutClosed
           /\ stdout = <<>>
           /\ tx' = tx
           /\ stdoutRx' = stdoutRx
      ]_vars

C30_Witness ==
    /\ fpc = "eof"
    /\ stdoutRx = "alive"
    /\ Len(frames) = 2
    /\ tx = <<Decode(frames[1]), Decode(frames[2])>>
    /\ Decode(frames[2]).kind = "value"

\* This step is a call of transport method o; CallResult is what it returns.
Called(o) ==
    /\ Len(calls') = Len(calls) + 1
    /\ calls'[Len(calls')].op = o

CallResult == calls'[Len(calls')].result

\* No successful connect among the calls after the i-th.
NoConnectAfter(i) ==
    \A j \in (i + 1)..Len(calls) :
        ~(calls[j].op = "connect" /\ calls[j].result = "Ok")

\* op has been called on the transport as it is now connected (or not).
CalledSinceConnect(o) ==
    \E i \in 1..Len(calls) : calls[i].op = o /\ NoConnectAfter(i)

\* C27: close is idempotent: called in any state it returns success and
\* leaves the transport not ready, without stdin handle and without child
\* process; a second call changes nothing of that.
C27_CloseIdempotent ==
    [][Called("close")
        => /\ CallResult = "Ok"
           /\ ready' = FALSE
           /\ stdin' = "none"
           /\ process' = "none"
           /\ (calls # <<>> /\ calls[Len(calls)].op = "close")
              => UNCHANGED <<ready, stdin, process, written, framingVars>>
      ]_vars

C27_Witness ==
    /\ Len(calls) = 3
    /\ calls[1] = [op |-> "connect", result |-> "Ok", sent |-> 0]
    /\ calls[2].op = "close"
    /\ calls[3] = [calls[2] EXCEPT !.result = "Ok"]
    /\ Handle = [ready |-> FALSE, stdin |-> "none", process |-> "none"]

\* C28: write fails with a transport error and sends nothing whenever the
\* transport is not ready for writing: before connect has succeeded, after
\* close, and after end_input has closed the outbound side.
C28_WriteNotReadyFails ==
    [][(/\ Called("write")
        /\ \/ NoConnectAfter(0)
           \/ CalledSinceConnect("close")
           \/ CalledSinceConnect("end_input"))
        => /\ CallResult = "Transport"
           /\ written' = written
      ]_vars

C28_Witness ==
    /\ Len(calls) = 3
    /\ calls[1].op = "connect" /\ calls[1].result = "Ok"
    /\ calls[2].op = "end_input" /\ calls[2].result = "Ok"
    /\ calls[3].op = "write" /\ calls[3].result = "Transport"
    /\ ready
    /\ written = <<>>

\* C29: end_input closes only the outbound side: it drops the stdin handle
\* and leaves the ready flag, the child process and the reader alone, so
\* lines read afterwards are still decoded and delivered; every later write
\* fails; a call without a handle does nothing and returns success.
C29_EndInputOutboundOnly ==
    [][/\ Called("end_input")
          => /\ stdin' = "none"
             /\ ready' = ready
             /\ process' = process
             /\ UNCHANGED <<written, framingVars>>
             /\ stdin = "none" => CallResult = "Ok"
       /\ (Called("write") /\ CalledSinceConnect("end_input"))
          => CallResult = "Transport" /\ written' = written
       /\ (ReadsLine /\ stdoutRx = "alive" /\ CalledSinceConnect("end_input"))
          => LET r == LineStep(json_buffer, Head(stdout)) IN
             /\ json_buffer' = r.json_buffer
             /\ tx' = IF r.item = NoItem THEN tx ELSE Append(tx, r.item)
      ]_vars

C29_Witness ==
    /\ Len(calls) = 3
    /\ calls[1].op = "connect" /\ calls[1].result = "Ok"
    /\ calls[2] = [op |-> "end_input", result |-> "Ok", sent |-> 0]
    /\ calls[3] = [op |-> "end_input", result |-> "Ok", sent |-> 1]
    /\ ready
    /\ tx = <<Decode(Text_ab), Decode(Text_ab)>>

\* C25: with the streaming flag off, interrupt and set_permission_mode
\* return a protocol error and initialize returns success without payload;
\* in both cases nothing is written to the subprocess, no entry is added to
\* the pending table and the request counter keeps its value.
C25_NonStreamingInert ==
    [][\A c \in Callers :
        (~is_streaming /\ pc[c] = "idle" /\ pc'[c] # "idle")
        => /\ pc'[c] = "done"
           /\ outcomes'[c] = Append(outcomes[c],
                                    IF op'[c] = "initialize"
                                    THEN "Ok" ELSE "ControlProtocol")
           /\ op'[c] = "initialize" => returned'[c] = Null
           /\ written' = written
           /\ pending_responses' = pending_responses
           /\ request_counter' = request_counter
      ]_vars

C25_Witness ==
    /\ ~is_streaming
    /\ pc = [c \in Callers |-> "done"]
    /\ op[1] = "interrupt" /\ outcomes[1] = <<"ControlProtocol">>
    /\ op[2] = "initialize" /\ outcomes[2] = <<"Ok">>
    /\ returned[2] = Null
    /\ written = <<>>
    /\ pending_responses = {}
    /\ request_counter = 0
    /\ channel # <<>>

\* C26: request ids are unique: every call of send_control_request raises
\* the counter by exactly one and takes the new value, which no other call
\* has taken, and its registration never replaces an entry that is already
\* in the pending table, whatever the interleaving of the callers.
C26_RequestIdsUnique ==
    [][\A c \in Callers :
        /\ (pc[c] = "idle" /\ pc'[c] = "register")
           => /\ request_counter' = request_counter + 1
              /\ rid'[c] = request_counter'
              /\ \A d \in Callers \ {c} : rid[d] # rid'[c]
        /\ (pc[c] = "register" /\ pc'[c] # "register")
           => /\ rid[c] \notin pending_responses
              /\ oneshot[rid[c]] = "none"
              /\ pending_responses' = pending_responses \cup {rid[c]}
      ]_vars

C26_Witness ==
    /\ pc[1] = "register"
    /\ pc[2] = "awaiting"
    /\ rid[1] = 1
    /\ rid[2] = 2
    /\ pending_responses = {2}

\* Some caller has had its write fail.
WriteFailed == \E c \in Callers : outcomes[c] = <<"Transport">>

\* C23: a failed transport write is returned to the caller in the step that
\* makes it, from send_control_request and from ClaudeSDKClient::query
\* alike: nothing is sent, the transport lock is released and the read loop
\* is left as it was; after a failed write the read loop still takes the
\* transport and routes every frame that arrives.
C23_FailedWriteReturned ==
    [][/\ \A c \in Callers :
            (pc[c] = "wantLock" /\ pc'[c] # "wantLock" /\ ~WriteOk)
            => /\ pc'[c] = "done"
               /\ outcomes'[c] = Append(outcomes[c], "Transport")
               /\ written' = written
               /\ lockOwner' = "free"
               /\ UNCHANGED <<rlPc, inbox, consumed, channel, dispatchVars,
                              pending_responses>>
       /\ (WriteFailed /\ rlPc = "spawned") => ENABLED ReadLoopLock
       /\ (WriteFailed /\ rlPc = "reading" /\ inbox # <<>>)
          => ENABLED (RouteControlResponse \/ RouteOrdinary)
      ]_vars

C23_Witness ==
    /\ op[1] = "interrupt" /\ outcomes[1] = <<"Transport">>
    /\ op[2] = "query" /\ outcomes[2] = <<"Transport">>
    /\ written = <<>>
    /\ rlPc = "reading"
    /\ Len(consumed) = 2
    /\ Len(channel) >= 1

\* C39: the framing layer keeps the buffer after a line that fails to
\* decode and appends the following lines to it: reading a non-empty line
\* that fits the maximum emits a value exactly when the buffer followed by
\* that line decodes, and otherwise emits nothing and keeps the whole
\* concatenation; an empty line changes nothing.  So a malformed line
\* followed by a complete valid object yields no value for that object.
C39_BufferKeptOnFailure ==
    [][(ReadsLine /\ stdoutRx = "alive")
        => LET line == Trim(Head(stdout))
               buffer == json_buffer \o line
           IN /\ line = <<>> => tx' = tx /\ json_buffer' = json_buffer
              /\ (line # <<>> /\ Len(buffer) <= max_buffer_size)
                 => IF Decode(buffer).kind = "value"
                    THEN tx' = Append(tx, Decode(buffer)) /\ json_buffer' = <<>>
                    ELSE tx' = tx /\ json_buffer' = buffer
      ]_vars

C39_Witness ==
    /\ frames = <<Text_stray, Text_empty>>
    /\ nLines = 2
    /\ stdout = <<>>
    /\ fpc = "reading"
    /\ tx = <<>>
    /\ json_buffer = Text_stray \o Text_empty

\* C40: the size check precedes decoding: a buffer longer than the maximum
\* is answered with a decode error and never emitted as a value, even when
\* it is one complete valid JSON value on one line, while a buffer of
\* exactly the maximum size that is a valid value is decoded and emitted.
C40_SizeCheckFirst ==
    [][(ReadsLine /\ stdoutRx = "alive" /\ Trim(Head(stdout)) # <<>>)
        => LET buffer == json_buffer \o Trim(Head(stdout)) IN
           /\ Len(buffer) > max_buffer_size
              => tx' = Append(tx, DecodeError)
           /\ (Len(buffer) = max_buffer_size /\ Decode(buffer).kind = "value")
              => tx' = Append(tx, Decode(buffer))
      ]_vars

C40_Witness ==
    /\ frames = <<Text_padded, Text_a_b>>
    /\ Decode(Text_padded).kind = "value"
    /\ Len(Text_padded) = max_buffer_size + 1
    /\ Len(Text_a_b) = max_buffer_size
    /\ nLines = 2
    /\ stdout = <<>>
    /\ tx = <<DecodeError, Decode(Text_a_b)>>

\* The calls of read_messages, as positions in `calls`.
ReadCalls == {k \in 1..Len(calls) : calls[k].op = "read_messages"}

\* Every frame is yielded at most once, as the item read_stdout sent.
YieldedOnce ==
    /\ \A i, j \in 1..Len(yielded) :
           yielded[i].idx = yielded[j].idx => i = j
    /\ \A i \in 1..Len(yielded) : yielded[i].item = tx[yielded[i].idx]

C32_AllowPayload ==
    (cur.kind = "ok" /\ NeedsCallback(cur) /\ result.variant = "Allow")
    => LET data == ResponseData(cur, result) IN
       /\ data.subtype = "success"
       /\ data.request_id = cur.request_id
       /\ data.payload = IF result.updated_input # ""
                         THEN <<"allow", "true", "input", result.updated_input>>
                         ELSE <<"allow", "true">>

C32_Witness ==
    /\ rlPc = "replying"
    /\ cur.subtype = "can_use_tool"
    /\ result = Allow("")
    /\ ResponseData(cur, result).payload = <<"allow", "true">>

\* C33: over a read sequence of ordinary frames only, initialize() called
\* after start() returns success, and the stream of receive_messages() then
\* yields the ordinary frames of the sequence, in order.
C33_InitializeThenStream ==
    /\ \A c \in Callers :
           (op[c] = "initialize" /\ pc[c] = "done") => outcomes[c] = <<"Ok">>
    /\ rxState = "taken" => IsPrefix(SubSeq(channel, 1, rxPos), arrived)

\* C34: close() on a connected session can complete while the subprocess
\* keeps its output open and the read loop waits for the next frame.
C34_CloseCompletes ==
    (ready /\ ~peerClosed /\ rlPc = "reading" /\ inbox = <<>>)
    => ENABLED Close

\* C35: the poll of a receive_response stream that takes the terminal Result
\* message yields that message as an item.
C35_ResultYielded ==
    [][(view = "response" /\ rxState = "taken" /\ rxPos' = rxPos + 1
            /\ IsResultMessage(channel[rxPos + 1]))
        => cPc' = "item"
      ]_vars

\* C36: when the transport write inside send_control_request has failed,
\* the correlation table has no entry for the id that call generated.
C36_FailedSendNoEntry ==
    \A c \in Callers :
        (op[c] # "query" /\ outcomes[c] = <<"Transport">>)
        => rid[c] \notin pending_responses

\* C37: connect eventually returns success when the subprocess answers the
\* initialize request it receives, whichever of the connecting task and the
\* read-loop task takes the transport lock first.
C37_ConnectReturns ==
    <>(op[1] = "initialize" /\ pc[1] = "done" /\ outcomes[1] = <<"Ok">>)

\* C38: a control request issued after the caller dropped its receive stream
\* is resolved by its matching control_response: no such response is left
\* unread by a read loop that has ended because of an ordinary frame.
C38_ResolvedWithoutConsumer ==
    \A f \in Range(inbox) :
        (/\ rxState = "dropped"
         /\ IsControlResponse(f)
         /\ f.request_id \in pending_responses
         /\ oneshot[f.request_id] = "waiting")
        => rlPc # "done"

====
